---- MODULE Spec2Model ----
(***************************************************************************)
(* Model of materials.py: the batched scatter functions of the three       *)
(* materials (Lambertian, Metal, Dielectric) and the vector primitives     *)
(* reflect, refract and reflectance.                                       *)
(*                                                                         *)
(* Numbers.  A tensor element is an exact rational <<num, den>> in lowest  *)
(* terms with den > 0.  +, -, *, / and the comparisons are exact; sqrt is  *)
(* exact on squares of rationals and rounds down to a multiple of          *)
(* 1/SqrtScale elsewhere.  Floating-point rounding of the other            *)
(* operations, NaN and infinities are outside the model.                   *)
(*                                                                         *)
(* Tensors.  An [N,3] tensor is a sequence of N rows, a row a triple of    *)
(* rationals; an [N,1] or [N] tensor is a sequence of N rationals or       *)
(* booleans.  The tensors that outlive a call or are passed into it live   *)
(* in the memory `mem`; a tensor value names the storage it reads and      *)
(* writes, so that views (expand) and in-place writes are what they are in *)
(* the program.                                                            *)
(***************************************************************************)
EXTENDS Integers, Sequences, FiniteSets, TLC

\* ------------------------------------------------------------ bounds
\* Largest batch size N the tracer hands to scatter.
MaxN == 2

\* ------------------------------------------------------- rationals
Abs(x) == IF x < 0 THEN -x ELSE x

RECURSIVE GCD(_, _)
GCD(a, b) == IF b = 0 THEN a ELSE GCD(b, a % b)

\* The rational n/d (d # 0) in lowest terms with a positive denominator.
Rat(n, d) ==
    LET g == GCD(Abs(n), Abs(d))
        s == IF d < 0 THEN -1 ELSE 1
    IN  <<s * (n \div g), s * (d \div g)>>

Zero == <<0, 1>>
One == <<1, 1>>
Two == <<2, 1>>

RNeg(p) == <<-p[1], p[2]>>

RAdd(p, q) ==
    LET g == GCD(p[2], q[2])
    IN  Rat(p[1] * (q[2] \div g) + q[1] * (p[2] \div g), (p[2] \div g) * q[2])

RSub(p, q) == RAdd(p, RNeg(q))

RMul(p, q) ==
    LET g1 == GCD(Abs(p[1]), q[2])
        g2 == GCD(Abs(q[1]), p[2])
    IN  Rat((p[1] \div g1) * (q[1] \div g2), (p[2] \div g2) * (q[2] \div g1))

\* p / q for q # 0.
RDiv(p, q) == RMul(p, Rat(q[2], q[1]))

\* p < q, by the continued-fraction expansions (no product of the two).
RECURSIVE RLess(_, _)
RLess(p, q) ==
    LET ip == p[1] \div p[2]
        iq == q[1] \div q[2]
        rp == p[1] % p[2]
        rq == q[1] % q[2]
    IN  IF ip # iq THEN ip < iq
        ELSE IF rq = 0 THEN FALSE
        ELSE IF rp = 0 THEN TRUE
        ELSE RLess(<<q[2], rq>>, <<p[2], rp>>)

RGreater(p, q) == RLess(q, p)

RMin(p, q) == IF RLess(q, p) THEN q ELSE p

RMax(p, q) == IF RLess(p, q) THEN q ELSE p

RAbs(p) == <<Abs(p[1]), p[2]>>

\* Integer square root: the largest r with r * r <= n, searched in lo..hi.
RECURSIVE ISqrtIn(_, _, _)
ISqrtIn(n, lo, hi) ==
    IF lo >= hi THEN lo
    ELSE LET mid == (lo + hi + 1) \div 2
         IN  IF mid * mid <= n THEN ISqrtIn(n, mid, hi) ELSE ISqrtIn(n, lo, mid - 1)

ISqrt(n) == ISqrtIn(n, 0, IF n < 46340 THEN n ELSE 46340)

\* Resolution of a square root that is not rational.
SqrtScale == 100

\* sqrt(p) for p >= 0.
RSqrt(p) ==
    LET sn == ISqrt(p[1])
        sd == ISqrt(p[2])
    IN  IF sn * sn = p[1] /\ sd * sd = p[2] THEN <<sn, sd>>
        ELSE Rat(ISqrt((p[1] * SqrtScale * SqrtScale) \div p[2]), SqrtScale)

RECURSIVE RPow(_, _)
RPow(p, k) == IF k = 0 THEN One ELSE RMul(p, RPow(p, k - 1))

\* ------------------------------------------------------------- rows
\* A row of an [N,3] tensor with integer components.
IV(a, b, c) == <<<<a, 1>>, <<b, 1>>, <<c, 1>>>>

\* A row with components a/d, b/d, c/d.
QV(a, b, c, d) == <<Rat(a, d), Rat(b, d), Rat(c, d)>>

ZeroRow == IV(0, 0, 0)

VAdd(u, v) == <<RAdd(u[1], v[1]), RAdd(u[2], v[2]), RAdd(u[3], v[3])>>

VSub(u, v) == <<RSub(u[1], v[1]), RSub(u[2], v[2]), RSub(u[3], v[3])>>

VNeg(u) == <<RNeg(u[1]), RNeg(u[2]), RNeg(u[3])>>

\* s * v for a scalar s (a [N,1] element broadcast over the row).
VScale(s, v) == <<RMul(s, v[1]), RMul(s, v[2]), RMul(s, v[3])>>

VDot(u, v) == RAdd(RAdd(RMul(u[1], v[1]), RMul(u[2], v[2])), RMul(u[3], v[3]))

VNorm(v) == RSqrt(VDot(v, v))

\* ---------------------------------------------------------- tensors
\* The sequence <<F(1), ..., F(n)>>: a tensor built row by row.
RECURSIVE Rows(_, _)
Rows(F(_), n) == IF n = 0 THEN <<>> ELSE Append(Rows(F, n - 1), F(n))

\* A tensor value: the storage it reads and writes.  base = "own": a storage
\* of its own, created with it, holding data.  Otherwise base names a storage
\* of mem, and expand = N > 0 makes it the [N,3] view that repeats the [3]
\* storage N times (stride 0), expand = 0 the storage as it is.
Own(data) == [base |-> "own", data |-> data, expand |-> 0]

Ref(name) == [base |-> name, data |-> <<>>, expand |-> 0]

None == [base |-> "none", data |-> <<>>, expand |-> 0]

\* The contents of tensor x in memory m.
Read(x, m) ==
    IF x.base = "own" THEN x.data
    ELSE IF x.expand > 0 THEN Rows(LAMBDA i : m[x.base], x.expand)
    ELSE m[x.base]

\* x[i, k] = val, in place: the tensor and the memory afterwards.
setitem(x, i, k, val, m) ==
    IF x.base = "own"
    THEN [t |-> [x EXCEPT !.data[i][k] = val], mem |-> m]
    ELSE IF x.expand > 0
    THEN [t |-> x, mem |-> [m EXCEPT ![x.base][k] = val]]
    ELSE [t |-> x, mem |-> [m EXCEPT ![x.base][i][k] = val]]

\* (a * b).sum() broadcast to [N,1]: the sum over every row and column.
RowDotAll(a, b) ==
    LET RECURSIVE Tot(_)
        Tot(j) == IF j = 0 THEN Zero ELSE RAdd(Tot(j - 1), VDot(a[j], b[j]))
    IN  Rows(LAMBDA i : Tot(Len(a)), Len(a))

\* (a * b).sum(dim=1, keepdim=True): the per-row dot product, [N,1].
RowDot(a, b) == Rows(LAMBDA i : VDot(a[i], b[i]), Len(a))

\* x.norm(dim=1), [N].
norm(x) == Rows(LAMBDA i : VNorm(x[i]), Len(x))

\* F.normalize(x, dim=-1): x / max(||x||, eps) per row, eps = 1e-12.  A row of
\* norm 0 is the zero row and stays it (0 / eps); every other norm of the model
\* is above eps.
normalize(x) ==
    Rows(LAMBDA i :
        LET l == VNorm(x[i])
        IN  IF RLess(Zero, l) THEN VScale(RDiv(One, l), x[i]) ELSE x[i], Len(x))

\* t.stack([origin, direction], dim=-1): a new [N,3,2] tensor.
stack(origin, direction) == Rows(LAMBDA i : <<origin[i], direction[i]>>, Len(origin))

\* r_in[:, :, 1]: the directions of a batch of rays.
directions(rays) == Rows(LAMBDA i : rays[i][2], Len(rays))

\* -------------------------------------------------------- primitives
\* reflect with the factor 2 left out: v - (v * n).sum(dim=1, keepdim=True) * n
reflect_once(v, n) ==
    LET d == RowDot(v, n)
    IN  Rows(LAMBDA i : VSub(v[i], VScale(d[i], n[i])), Len(v))

\* v - 2 * (v * n).sum(dim=1, keepdim=True) * n
reflect(v, n) ==
    LET d == RowDot(v, n)
    IN  Rows(LAMBDA i : VSub(v[i], VScale(RMul(Two, d[i]), n[i])), Len(v))

\* refract with the parallel part along +n instead of -n.
refract_parallel_up(uv, n, etai_over_etat) ==
    LET d == RowDot(Rows(LAMBDA i : VNeg(uv[i]), Len(uv)), n)
        cos_theta == Rows(LAMBDA i : RMin(d[i], One), Len(uv))
        r_out_perp == Rows(LAMBDA i :
            VScale(etai_over_etat[i], VAdd(uv[i], VScale(cos_theta[i], n[i]))), Len(uv))
        pp == RowDot(r_out_perp, r_out_perp)
        r_out_parallel == Rows(LAMBDA i :
            VScale(RSqrt(RAbs(RSub(One, pp[i]))), n[i]), Len(uv))
    IN  Rows(LAMBDA i : VAdd(r_out_perp[i], r_out_parallel[i]), Len(uv))

refract(uv, n, etai_over_etat) ==
    LET d == RowDot(Rows(LAMBDA i : VNeg(uv[i]), Len(uv)), n)
        cos_theta == Rows(LAMBDA i : RMin(d[i], One), Len(uv))
        r_out_perp == Rows(LAMBDA i :
            VScale(etai_over_etat[i], VAdd(uv[i], VScale(cos_theta[i], n[i]))), Len(uv))
        pp == RowDot(r_out_perp, r_out_perp)
        r_out_parallel == Rows(LAMBDA i :
            VScale(RNeg(RSqrt(RAbs(RSub(One, pp[i])))), n[i]), Len(uv))
    IN  Rows(LAMBDA i : VAdd(r_out_perp[i], r_out_parallel[i]), Len(uv))

\* Schlick: r0 + (1 - r0) * (1 - cosine) ** 5, r0 = ((1 - ref_idx) / (1 + ref_idx)) ** 2
reflectance(cosine, ref_idx) ==
    Rows(LAMBDA i :
        LET r0 == RPow(RDiv(RSub(One, ref_idx[i]), RAdd(One, ref_idx[i])), 2)
        IN  RAdd(r0, RMul(RSub(One, r0), RPow(RSub(One, cosine[i]), 5))), Len(cosine))

\* -------------------------------------------------------- Lambertian
\* The material object: its albedo is the tensor the constructor was given.
Lambertian_init(albedo) == [kind |-> "Lambertian", albedo |-> albedo]

\* 1e-8, the length below which a scatter direction counts as degenerate.
Degenerate == <<1, 100000000>>

\* normals.add_(random_unit_vector((N, 3))): the sum written into normals' storage.
scatter_direction_inplace(normals, rand, m) ==
    [t |-> normals,
     mem |-> [m EXCEPT ![normals.base] =
                 Rows(LAMBDA i : VAdd(Read(normals, m)[i], rand[i]), Len(rand))]]

\* normals + random_unit_vector((N, 3)): a new tensor; memory as it was.
scatter_direction_new(normals, rand, m) ==
    [t |-> Own(Rows(LAMBDA i : VAdd(Read(normals, m)[i], rand[i]), Len(rand))),
     mem |-> m]

\* A zero_mask that finds no degenerate row.
zero_mask_never(scatter_direction) == Rows(LAMBDA i : FALSE, Len(scatter_direction))

\* scatter_direction.norm(dim=1) < 1e-8
zero_mask(scatter_direction) ==
    LET l == norm(scatter_direction)
    IN  Rows(LAMBDA i :
            RLess(l[i], Degenerate), Len(scatter_direction))

\* x[mask] = src[mask], in place: the tensor and the memory afterwards.
index_put(x, mask, src, m) ==
    LET new == Rows(LAMBDA i : IF mask[i] THEN src[i] ELSE Read(x, m)[i], Len(mask))
    IN  IF x.base = "own"
        THEN [t |-> [x EXCEPT !.data = new], mem |-> m]
        ELSE [t |-> x, mem |-> [m EXCEPT ![x.base] = new]]

\* self.albedo.expand(N, 3): a view of the albedo's storage, no copy.
expand(x, N) == [x EXCEPT !.expand = N]

\* t.zeros(N, dtype=t.bool)
zeros_bool(N) == Rows(LAMBDA i : FALSE, N)

\* t.ones(N, dtype=t.bool)
ones_bool(N) == Rows(LAMBDA i : TRUE, N)

\* Lambertian.scatter; rand is what random_unit_vector((N, 3)) returns.  The
\* result, the memory after the call and the locals of the call.
Lambertian_scatter(self, r_in, hit_record, rand, m) ==
    LET N == Len(Read(r_in, m))
        normals == hit_record.normal
        points == hit_record.point
        a == scatter_direction_new(normals, rand, m)
        zm == zero_mask(Read(a.t, a.mem))
        b == index_put(a.t, zm, Read(normals, a.mem), a.mem)
        corrected == Read(b.t, b.mem)
        unit == normalize(corrected)
        new_rays == stack(Read(points, b.mem), unit)
        attenuation == expand(self.albedo, N)
        scatter_mask == ones_bool(N)
    IN  [scatter_mask |-> Own(scatter_mask),
         attenuation |-> attenuation,
         new_rays |-> Own(new_rays),
         mem |-> b.mem,
         loc |-> [kind |-> "Lambertian", N |-> N, rand |-> rand,
                  zero_mask |-> zm, scatter_direction |-> corrected]]

\* ------------------------------------------------------------- Metal
\* The default of Metal's fuzz parameter.
DefaultFuzz == <<3, 10>>

\* min(fuzz, 1.0), the lower clamp left out.
clamp_upper_only(fuzz) == RMin(fuzz, One)

\* max(0.0, min(fuzz, 1.0))
clamp(fuzz) == RMax(Zero, RMin(fuzz, One))

Metal_init(albedo, fuzz) == [kind |-> "Metal", albedo |-> albedo, fuzz |-> clamp(fuzz)]

\* dot_product >= 0
above_surface_or_on(dot_product) ==
    Rows(LAMBDA i : ~RLess(dot_product[i], Zero), Len(dot_product))

\* dot_product > 0
above_surface(dot_product) ==
    Rows(LAMBDA i : RGreater(dot_product[i], Zero), Len(dot_product))

\* Metal.scatter; rand is what random_unit_vector((N, 3)) returns.
Metal_scatter(self, r_in, hit_record, rand, m) ==
    LET N == Len(Read(r_in, m))
        normals == Read(hit_record.normal, m)
        points == Read(hit_record.point, m)
        in_directions == normalize(directions(Read(r_in, m)))
        mirrored == reflect(in_directions, normals)
        fuzzed == Rows(LAMBDA i : VAdd(mirrored[i], VScale(self.fuzz, rand[i])), N)
        reflected_direction == normalize(fuzzed)
        dot_product == RowDot(reflected_direction, normals)
        scatter_mask == above_surface(dot_product)
        new_rays == stack(points, reflected_direction)
        attenuation == expand(self.albedo, N)
    IN  [scatter_mask |-> Own(scatter_mask),
         attenuation |-> attenuation,
         new_rays |-> Own(new_rays),
         mem |-> m,
         loc |-> [kind |-> "Metal", N |-> N, rand |-> rand,
                  in_directions |-> in_directions, mirrored |-> mirrored]]

\* -------------------------------------------------------- Dielectric
Dielectric_init(refraction_index) ==
    [kind |-> "Dielectric", refraction_index |-> refraction_index]

\* t.ones(N, 3)
ones(N) == Rows(LAMBDA i : IV(1, 1, 1), N)

\* t.where(front_face, 1.0 / refraction_index, refraction_index), [N,1]
refraction_ratio(front_face, refraction_index) ==
    Rows(LAMBDA i :
        IF front_face[i] THEN RDiv(One, refraction_index) ELSE refraction_index, Len(front_face))

\* (refraction_ratio * sin_theta) > 1.0
cannot_refract(ratio, sin_theta) ==
    Rows(LAMBDA i : RGreater(RMul(ratio[i], sin_theta[i]), One), Len(ratio))

\* reflect_prob > random_numbers, cannot_refract left out.
should_reflect_by_draw_only(cannot, reflect_prob, random_numbers) ==
    Rows(LAMBDA i : RGreater(reflect_prob[i], random_numbers[i]), Len(cannot))

\* cannot_refract | (reflect_prob > random_numbers)
should_reflect(cannot, reflect_prob, random_numbers) ==
    Rows(LAMBDA i :
        cannot[i] \/ RGreater(reflect_prob[i], random_numbers[i]), Len(cannot))

\* Dielectric.scatter; random_numbers is what t.rand(N, 1) returns.
Dielectric_scatter(self, r_in, hit_record, random_numbers, m) ==
    LET N == Len(Read(r_in, m))
        normals == Read(hit_record.normal, m)
        points == Read(hit_record.point, m)
        front_face == Read(hit_record.front_face, m)
        unit_direction == normalize(directions(Read(r_in, m)))
        attenuation == ones(N)
        ratio == refraction_ratio(front_face, self.refraction_index)
        d == RowDot(Rows(LAMBDA i : VNeg(unit_direction[i]), N), normals)
        cos_theta == Rows(LAMBDA i : RMin(d[i], One), N)
        sin_theta == Rows(LAMBDA i : RSqrt(RSub(One, RMul(cos_theta[i], cos_theta[i]))), N)
        cannot == cannot_refract(ratio, sin_theta)
        reflect_prob == reflectance(cos_theta, ratio)
        decision == should_reflect(cannot, reflect_prob, random_numbers)
        reflected_direction == reflect(unit_direction, normals)
        refracted_direction == refract(unit_direction, normals, ratio)
        direction == Rows(LAMBDA i :
            IF decision[i] THEN reflected_direction[i] ELSE refracted_direction[i], N)
        new_rays == stack(points, direction)
        scatter_mask == ones_bool(N)
    IN  [scatter_mask |-> Own(scatter_mask),
         attenuation |-> Own(attenuation),
         new_rays |-> Own(new_rays),
         mem |-> m,
         loc |-> [kind |-> "Dielectric", N |-> N, rand |-> random_numbers,
                  unit_direction |-> unit_direction, cos_theta |-> cos_theta,
                  sin_theta |-> sin_theta, ratio |-> ratio,
                  reflect_prob |-> reflect_prob, should_reflect |-> decision]]

\* ------------------------------------------------------ environment
\* Albedo tensors a scene gives its materials.
Albedos == {QV(1, 1, 1, 2), QV(4, 4, 4, 5)}


\* The fuzz argument of Metal(albedo, fuzz): left out (the default applies),
\* below 0, inside [0,1], above 1.
FuzzArgs ==
    {[given |-> FALSE, value |-> Zero]} \cup
    {[given |-> TRUE, value |-> q] : q \in {<<-1, 2>>, <<1, 2>>, <<3, 2>>}}

RefractionIndices == {One, <<3, 2>>}

\* The hit events of a scene: the incoming ray (origin, direction; the direction
\* nonzero, of any length) and the hit record's point, unit normal and
\* front_face.  In turn: normal incidence; incidence at 37 degrees on the front
\* face; at 53 degrees on the back face; a ray arriving on the side the normal
\* points away from; a grazing ray.
Hits ==
    {[origin |-> IV(0, 2, 0), direction |-> IV(0, -2, 0), point |-> IV(0, 0, 0),
      normal |-> IV(0, 1, 0), front_face |-> TRUE],
     [origin |-> IV(-3, 4, 0), direction |-> IV(3, -4, 0), point |-> IV(0, 0, 0),
      normal |-> IV(0, 1, 0), front_face |-> TRUE],
     [origin |-> IV(-3, 3, 1), direction |-> IV(4, -3, 0), point |-> IV(1, 0, 1),
      normal |-> IV(0, 1, 0), front_face |-> FALSE],
     [origin |-> IV(-6, 1, 2), direction |-> IV(8, 6, 0), point |-> IV(2, 7, 2),
      normal |-> IV(1, 0, 0), front_face |-> TRUE],
     [origin |-> IV(-5, 0, 0), direction |-> IV(5, 0, 0), point |-> IV(0, 0, 0),
      normal |-> IV(0, 1, 0), front_face |-> FALSE]}

\* What random_unit_vector returns for one row: unit vectors, among them the
\* opposites of the two normals.
RandomUnitVectors == {IV(0, -1, 0), QV(3, 4, 0, 5)}

\* What t.rand returns for one row: draws of the uniform distribution on [0,1).
UniformDraws == {Zero, <<1, 2>>}

\* What a caller writes into a tensor it was returned.
WrittenValues == {Zero}

\* The element it writes them to: attenuation[0, 0].
WrittenRows == {1}

WrittenChannels == {1}

\* --------------------------------------------------------------- state
VARIABLES
    mat,    \* the material object of the scene; kind "none" before it is built
    ctor,   \* the arguments its constructor was called with
    mem,    \* the storages: albedo [3], r_in [N,3,2], normal, point [N,3], front_face [N]
    res,    \* (scatter_mask, attenuation, new_rays) of the last scatter call
    loc,    \* the random draws and the locals of the last scatter call
    op      \* the step taken last

vars == <<mat, ctor, mem, res, loc, op>>

NoResult == [scatter_mask |-> None, attenuation |-> None, new_rays |-> None]

NoLocals == [kind |-> "none"]

\* The hit record handed to scatter: its fields are the tensors of mem.
HitRecord == [normal |-> Ref("normal"), point |-> Ref("point"), front_face |-> Ref("front_face")]

BatchSize == Len(mem.r_in)

Init ==
    /\ mat = [kind |-> "none"]
    /\ ctor = [kind |-> "none"]
    /\ mem = [albedo |-> <<>>, r_in |-> <<>>, normal |-> <<>>, point |-> <<>>,
              front_face |-> <<>>]
    /\ res = NoResult
    /\ loc = NoLocals
    /\ op = "init"

\* Lambertian(albedo)
NewLambertian ==
    /\ mat.kind = "none"
    /\ \E albedo \in Albedos :
        /\ mem' = [mem EXCEPT !.albedo = albedo]
        /\ mat' = Lambertian_init(Ref("albedo"))
        /\ ctor' = [kind |-> "Lambertian", albedo |-> albedo]
    /\ op' = "new"
    /\ UNCHANGED <<res, loc>>

\* Metal(albedo) and Metal(albedo, fuzz)
NewMetal ==
    /\ mat.kind = "none"
    /\ \E albedo \in Albedos, arg \in FuzzArgs :
        /\ mem' = [mem EXCEPT !.albedo = albedo]
        /\ mat' = Metal_init(Ref("albedo"), IF arg.given THEN arg.value ELSE DefaultFuzz)
        /\ ctor' = [kind |-> "Metal", albedo |-> albedo, fuzz |-> arg]
    /\ op' = "new"
    /\ UNCHANGED <<res, loc>>

\* Dielectric(refraction_index)
NewDielectric ==
    /\ mat.kind = "none"
    /\ \E refraction_index \in RefractionIndices :
        /\ mat' = Dielectric_init(refraction_index)
        /\ ctor' = [kind |-> "Dielectric", refraction_index |-> refraction_index]
    /\ op' = "new"
    /\ UNCHANGED <<mem, res, loc>>

\* The tracer adds a hit on the material to the batch it is about to scatter.
Hit ==
    /\ mat.kind # "none"
    /\ res = NoResult
    /\ BatchSize < MaxN
    /\ \E h \in Hits :
        mem' = [mem EXCEPT !.r_in = Append(@, <<h.origin, h.direction>>),
                           !.normal = Append(@, h.normal),
                           !.point = Append(@, h.point),
                           !.front_face = Append(@, h.front_face)]
    /\ op' = "hit"
    /\ UNCHANGED <<mat, ctor, res, loc>>

\* What a scatter call leaves: its result with the caller and the memory as
\* the call left it.  The tracer scatters a batch once.
Return(out) ==
    /\ res = NoResult
    /\ mem' = out.mem
    /\ res' = [scatter_mask |-> out.scatter_mask, attenuation |-> out.attenuation,
               new_rays |-> out.new_rays]
    /\ loc' = out.loc
    /\ op' = "scatter"
    /\ UNCHANGED <<mat, ctor>>

ScatterLambertian ==
    /\ mat.kind = "Lambertian"
    /\ BatchSize > 0
    /\ \E rand \in [1..BatchSize -> RandomUnitVectors] :
        Return(Lambertian_scatter(mat, Ref("r_in"), HitRecord, rand, mem))

ScatterMetal ==
    /\ mat.kind = "Metal"
    /\ BatchSize > 0
    /\ \E rand \in [1..BatchSize -> RandomUnitVectors] :
        Return(Metal_scatter(mat, Ref("r_in"), HitRecord, rand, mem))

ScatterDielectric ==
    /\ mat.kind = "Dielectric"
    /\ BatchSize > 0
    /\ \E random_numbers \in [1..BatchSize -> UniformDraws] :
        Return(Dielectric_scatter(mat, Ref("r_in"), HitRecord, random_numbers, mem))

\* The caller writes one element of the attenuation it was returned, in place
\* (attenuation[i, k] = val).
Modify ==
    /\ res # NoResult
    /\ \E i \in WrittenRows, k \in WrittenChannels, val \in WrittenValues :
        LET out == setitem(res.attenuation, i, k, val, mem)
        IN  /\ mem' = out.mem
            /\ res' = [res EXCEPT !.attenuation = out.t]
    /\ op' = "write"
    /\ UNCHANGED <<mat, ctor, loc>>

\* The tracer is done with the batch and with what scatter returned for it.
Discard ==
    /\ res # NoResult
    /\ mem' = [mem EXCEPT !.r_in = <<>>, !.normal = <<>>, !.point = <<>>,
                          !.front_face = <<>>]
    /\ res' = NoResult
    /\ loc' = NoLocals
    /\ op' = "discard"
    /\ UNCHANGED <<mat, ctor>>

Next ==
    \/ NewLambertian
    \/ NewMetal
    \/ NewDielectric
    \/ Hit
    \/ ScatterLambertian
    \/ ScatterMetal
    \/ ScatterDielectric
    \/ Modify
    \/ Discard

Spec == Init /\ [][Next]_vars

\* ------------------------------------------------------------- claims
\* The state right after a scatter call of the material of the given kind.
After(kind) == op = "scatter" /\ loc.kind = kind

Rows1 == 1..BatchSize

\* The directions of the new rays, the attenuation and the mask the call returned.
NewDirections == directions(Read(res.new_rays, mem))

Attenuation == Read(res.attenuation, mem)

ScatterMask == Read(res.scatter_mask, mem)

\* C1: in Dielectric.scatter an element with refraction_ratio * sin_theta > 1 takes
\* the reflected direction whatever the uniform draw is; any other element takes
\* the reflected direction exactly when its draw is below the Schlick reflectance,
\* and the refracted direction otherwise.
C1_ForcedReflection ==
    After("Dielectric") =>
        LET reflected == reflect(loc.unit_direction, mem.normal)
            refracted == refract(loc.unit_direction, mem.normal, loc.ratio)
        IN  \A i \in Rows1 :
                IF RGreater(RMul(loc.ratio[i], loc.sin_theta[i]), One)
                THEN NewDirections[i] = reflected[i]
                ELSE IF RLess(loc.rand[i], loc.reflect_prob[i])
                THEN NewDirections[i] = reflected[i]
                ELSE NewDirections[i] = refracted[i]

\* A batch with an element beyond the critical angle whose draw is not below its
\* reflectance, and an element that refracts.
C1_Witness ==
    /\ After("Dielectric")
    /\ \E i \in Rows1 :
        /\ RGreater(RMul(loc.ratio[i], loc.sin_theta[i]), One)
        /\ ~RLess(loc.rand[i], loc.reflect_prob[i])
        /\ NewDirections[i] = reflect(loc.unit_direction, mem.normal)[i]
    /\ \E i \in Rows1 :
        /\ ~loc.should_reflect[i]
        /\ NewDirections[i] # reflect(loc.unit_direction, mem.normal)[i]

C3_MaskAboveSurface ==
    After("Metal") =>
        \A i \in Rows1 :
            LET incoming == VDot(directions(mem.r_in)[i], mem.normal[i])
                mirror == VDot(loc.mirrored[i], mem.normal[i])
            IN  /\ ScatterMask[i] <=> RGreater(VDot(NewDirections[i], mem.normal[i]), Zero)
                /\ ~RGreater(mirror, Zero) <=> ~RLess(incoming, Zero)
                /\ (mat.fuzz = Zero /\ ~RLess(incoming, Zero)) => ~ScatterMask[i]

\* A perfect mirror that absorbs one ray of a batch and reflects another.
C3_Witness ==
    /\ After("Metal")
    /\ mat.fuzz = Zero
    /\ \E i \in Rows1 :
        /\ RGreater(VDot(directions(mem.r_in)[i], mem.normal[i]), Zero)
        /\ ~ScatterMask[i]
    /\ \E i \in Rows1 : ScatterMask[i]

\* C4: in Lambertian.scatter the scatter direction before normalization is never
\* the zero row: it is the normal where normal + sample is shorter than 1e-8 and
\* normal + sample everywhere else.
C4_NoZeroDirection ==
    After("Lambertian") =>
        \A i \in Rows1 :
            LET candidate == VAdd(mem.normal[i], loc.rand[i])
            IN  /\ loc.scatter_direction[i] # ZeroRow
                /\ IF RLess(VNorm(candidate), Degenerate)
                   THEN loc.scatter_direction[i] = mem.normal[i]
                   ELSE loc.scatter_direction[i] = candidate

\* A batch with a sample opposite to its normal, corrected, and one that is not.
C4_Witness ==
    /\ After("Lambertian")
    /\ \E i \in Rows1 :
        /\ loc.rand[i] = VNeg(mem.normal[i])
        /\ loc.zero_mask[i]
        /\ NewDirections[i] = mem.normal[i]
    /\ \E i \in Rows1 : ~loc.zero_mask[i]

\* C5: Lambertian.scatter and Dielectric.scatter return a scatter_mask of length N
\* that is true everywhere, so a false element comes from Metal.scatter only.
C5_OnlyMetalAbsorbs ==
    /\ (After("Lambertian") \/ After("Dielectric")) =>
        /\ Len(ScatterMask) = BatchSize
        /\ \A i \in Rows1 : ScatterMask[i]
    /\ (op = "scatter" /\ \E i \in Rows1 : ~ScatterMask[i]) => loc.kind = "Metal"

\* A Dielectric batch that holds a reflected and a refracted element.
C5_Witness ==
    /\ After("Dielectric")
    /\ BatchSize > 1
    /\ \E i \in Rows1 : loc.should_reflect[i]
    /\ \E i \in Rows1 : ~loc.should_reflect[i]
    /\ \A i \in Rows1 : ScatterMask[i]

\* C6: whatever a caller writes into an attenuation it was returned, the albedo of
\* a Lambertian or Metal stays what the constructor was given, and so does every
\* row of the attenuation a scatter call returns.
C6_ResultNotShared ==
    mat.kind \in {"Lambertian", "Metal"} =>
        /\ mem.albedo = ctor.albedo
        /\ op = "scatter" => \A i \in Rows1 : Attenuation[i] = ctor.albedo

\* C7: a scatter call leaves the material's configuration (albedo, fuzz,
\* refraction_index) and its inputs (r_in, normal, point, front_face) as they were.
C7_ScatterWritesNothing ==
    [][op' = "scatter" => (mat' = mat /\ mem' = mem)]_vars

\* A Lambertian call whose in-place correction has written a row.
C7_Witness ==
    /\ After("Lambertian")
    /\ BatchSize > 1
    /\ \E i \in Rows1 : loc.zero_mask[i] /\ loc.scatter_direction[i] = mem.normal[i]
    /\ mem.albedo = ctor.albedo

\* The memory and the draws of a batch cut down to its element i.
Single(x, i) == <<x[i]>>

SingleMem(i) ==
    [albedo |-> mem.albedo, r_in |-> Single(mem.r_in, i), normal |-> Single(mem.normal, i),
     point |-> Single(mem.point, i), front_face |-> Single(mem.front_face, i)]

\* The call of the material's scatter on element i alone, with its draws.
Alone(i) ==
    IF mat.kind = "Lambertian"
    THEN Lambertian_scatter(mat, Ref("r_in"), HitRecord, Single(loc.rand, i), SingleMem(i))
    ELSE IF mat.kind = "Metal"
    THEN Metal_scatter(mat, Ref("r_in"), HitRecord, Single(loc.rand, i), SingleMem(i))
    ELSE Dielectric_scatter(mat, Ref("r_in"), HitRecord, Single(loc.rand, i), SingleMem(i))

\* C8: what a batched scatter call returns for element i (mask, attenuation, new
\* ray) is what the call on element i alone returns, with the same configuration
\* and the same draws, whatever the other elements of the batch are.
C8_ElementsIndependent ==
    op = "scatter" =>
        \A i \in Rows1 :
            LET one == Alone(i)
            IN  /\ ScatterMask[i] = Read(one.scatter_mask, one.mem)[1]
                /\ Attenuation[i] = Read(one.attenuation, one.mem)[1]
                /\ Read(res.new_rays, mem)[i] = Read(one.new_rays, one.mem)[1]

\* A Metal batch of two different hits, one absorbed and one reflected.
C8_Witness ==
    /\ After("Metal")
    /\ BatchSize > 1
    /\ \E i, j \in Rows1 :
        /\ mem.r_in[i] # mem.r_in[j]
        /\ ScatterMask[i]
        /\ ~ScatterMask[j]
        /\ NewDirections[i] # NewDirections[j]

\* The fuzz a Metal was constructed with: the argument, or the default.
FuzzArgument == IF ctor.fuzz.given THEN ctor.fuzz.value ELSE DefaultFuzz

\* C9: the fuzz a Metal stores is in [0,1]: the argument where that is in [0,1]
\* (the default included), 0 where it is below 0 and 1 where it is above 1.
C9_FuzzClamped ==
    mat.kind = "Metal" =>
        /\ ~RLess(mat.fuzz, Zero)
        /\ ~RGreater(mat.fuzz, One)
        /\ (~RLess(FuzzArgument, Zero) /\ ~RGreater(FuzzArgument, One)) =>
                mat.fuzz = FuzzArgument
        /\ RLess(FuzzArgument, Zero) => mat.fuzz = Zero
        /\ RGreater(FuzzArgument, One) => mat.fuzz = One

\* A Metal constructed with a negative fuzz.
C9_Witness ==
    /\ mat.kind = "Metal"
    /\ ctor.fuzz.given
    /\ RLess(ctor.fuzz.value, Zero)
    /\ mat.fuzz = Zero

\* reflect(v, n) on row i reverses the component along n[i] and keeps the rest,
\* and is computed from row i alone.
Mirrors(v, n, r, i) ==
    LET along == VDot(v[i], n[i])
    IN  /\ VDot(r[i], n[i]) = RNeg(along)
        /\ VAdd(r[i], VScale(along, n[i])) = VSub(v[i], VScale(along, n[i]))
        /\ r[i] = reflect(Single(v, i), Single(n, i))[1]

\* C10: for every row, dot(reflect(v, n), n) = -dot(v, n) and
\* reflect(v, n) + dot(v, n) * n = v - dot(v, n) * n, for the unit normals of a
\* batch and both the directions of its rays as given (of any length) and the
\* normalized directions Metal.scatter reflects.
C10_ReflectReversesNormalComponent ==
    /\ \A i \in Rows1 :
        Mirrors(directions(mem.r_in), mem.normal,
                reflect(directions(mem.r_in), mem.normal), i)
    /\ After("Metal") =>
        \A i \in Rows1 : Mirrors(loc.in_directions, mem.normal, loc.mirrored, i)

\* A Metal call on two rays, one oblique and not of unit length, of which the
\* reflection differs from the ray.
C10_Witness ==
    /\ After("Metal")
    /\ BatchSize > 1
    /\ \E i \in Rows1 :
        /\ VDot(directions(mem.r_in)[i], mem.normal[i]) \notin {Zero, One, RNeg(One)}
        /\ VDot(directions(mem.r_in)[i], directions(mem.r_in)[i]) # One
        /\ loc.mirrored[i] # loc.in_directions[i]

====
